---- MODULE Spec2Model ----
(***************************************************************************)
(* execution-timer: a timing decorator (time_execution) and a stateful     *)
(* recorder (ExecutionTimer) that keeps the measured times in a log.       *)
(*                                                                         *)
(* The behaviour is taken from the README, the documentation notes and the *)
(* recorded outputs of the example notebook.  Three points are shown by    *)
(* none of them and follow the design document instead: the test that      *)
(* tells a method call from a function call, the average of a nested       *)
(* entry, and the time the ExecutionTimer's wrapper returns for            *)
(* n_iter > 1.                                                             *)
(*                                                                         *)
(* Elapsed times are clock differences; they are modelled as integer ticks *)
(* chosen freely for every run, and a mean is an exact fraction.  The text *)
(* of a printed message (five decimals, unit) is not modelled: a message   *)
(* carries its template and the value it formats.  The nanoseconds option  *)
(* only selects the clock and the unit named in the message and is left    *)
(* out.                                                                    *)
(***************************************************************************)
EXTENDS Integers, Sequences, FiniteSets, TLC

\* ------------------------------------------------------------------ bounds
MaxIter == 2      \* n_iter ranges over 1..MaxIter
MaxTick == 2      \* an elapsed time is one of 1..MaxTick ticks
MaxCalls == 2     \* logical calls of decorated callables in one behaviour
MaxRuns == 4      \* runs of the decorated callables in one behaviour
MaxBad == 1       \* n_iter also ranges over the non-positive (0 - MaxBad)..0
MaxLeaf == 2      \* longest list of times in a log handed to the average

Ticks == 1..MaxTick
Iters == 1..MaxIter
BadIters == (0 - MaxBad)..0

\* ------------------------------------------------------- the callables used
Functions == {"sample_function"}
Methods == {"sample_method", "sample_method_x2"}
Callables == Functions \cup Methods
SampleClass == "SampleClass"

\* The first declared parameter of each callable of the examples.
FirstParam(c) == IF c \in Methods THEN "self" ELSE "n"

\* How a call passes its argument: sample_function(n=1) has no positional
\* argument, sample_function(0.0001) a primitive one, sample.sample_method(n=1)
\* the instance.
CallShapes(c) == IF c \in Methods THEN {"instance"} ELSE {"keyword", "positional"}

FirstArgType(x) == IF x = "instance" THEN SampleClass
                   ELSE IF x = "positional" THEN "float" ELSE "absent"

\* The wrapped callable is an input of the decorator.  Its result is tagged
\* with the run that produced it, so that the result of the last run differs
\* from the result of any other run.
Apply(c, x, run) == [fn |-> c, arg |-> x, run |-> run]

\* ------------------------------------------------------------------ values
NoneValue == [type |-> "None"]

RECURSIVE GCD(_, _)
GCD(a, b) == IF b = 0 THEN a ELSE GCD(b, a % b)

\* A float that is the quotient n / d, d > 0, in lowest terms.
Ratio(n, d) == [type |-> "float", num |-> n \div GCD(n, d), den |-> d \div GCD(n, d)]

RECURSIVE Sum(_)
Sum(s) == IF s = << >> THEN 0 ELSE Head(s) + Sum(Tail(s))

Last(s) == s[Len(s)]

\* sum(times) / len(times)
Mean(s) == Ratio(Sum(s), Len(s))

\* ------------------------------------------------------------------- state
VARIABLES
    timer,      \* the ExecutionTimer: its constructor arguments
    log,        \* the ExecutionTimer's record of measured times
    decorated,  \* callable name -> the decoration its definition carries
    out,        \* the messages written to stdout by the last operation
    ret,        \* what the last operation returned
    op,         \* the last operation and its inputs
    ncalls,     \* logical calls made so far
    nruns       \* runs of the decorated callables made so far

vars == <<timer, log, decorated, out, ret, op, ncalls, nruns>>

EmptyLog == [k \in {} |-> NoneValue]

\* ---------------------------------------------------------- the log entries
ListEntry(times) == [kind |-> "list", times |-> times]
DictEntry(methods) == [kind |-> "dict", methods |-> methods]

\* Step 2 of the key resolution: the callable declares an instance parameter
\* and the first positional argument is an instance of a user-defined type.
IsMethodCall(c, x) == FirstParam(c) = "self" /\ FirstArgType(x) = SampleClass

AppendSampleFlat(l, c, x, t) ==
    LET old == IF c \in DOMAIN l THEN l[c].times ELSE << >>
    IN  [k \in DOMAIN l \cup {c} |-> IF k = c THEN ListEntry(Append(old, t)) ELSE l[k]]

\* One elapsed time is appended to the entry of the callable: log[name] for a
\* function, log[class][name] for a method.
AppendSample(l, c, x, t) ==
    IF IsMethodCall(c, x)
    THEN LET outer == FirstArgType(x)
             inner == IF outer \in DOMAIN l THEN l[outer].methods
                      ELSE [m \in {} |-> << >>]
             old == IF c \in DOMAIN inner THEN inner[c] ELSE << >>
             new == [m \in DOMAIN inner \cup {c} |->
                        IF m = c THEN Append(old, t) ELSE inner[m]]
         IN  [k \in DOMAIN l \cup {outer} |->
                 IF k = outer THEN DictEntry(new) ELSE l[k]]
    ELSE LET old == IF c \in DOMAIN l THEN l[c].times ELSE << >>
         IN  [k \in DOMAIN l \cup {c} |->
                 IF k = c THEN ListEntry(Append(old, t)) ELSE l[k]]

AppendLastRun(l, c, x, times) ==
    IF times = << >> THEN l ELSE AppendSample(l, c, x, Last(times))

\* The runs of one logical call, each appending its own elapsed time.
RECURSIVE AppendRuns(_, _, _, _)
AppendRuns(l, c, x, times) ==
    IF times = << >> THEN l
    ELSE AppendRuns(AppendSample(l, c, x, Head(times)), c, x, Tail(times))

\* The lists of times of a log, by flat key and by <<class, method>>.
Leaves(l) ==
    [p \in {<<k>> : k \in {k \in DOMAIN l : l[k].kind = "list"}}
           \cup UNION {{<<k, m>> : m \in DOMAIN l[k].methods} :
                          k \in {k \in DOMAIN l : l[k].kind = "dict"}} |->
        IF Len(p) = 1 THEN l[p[1]].times ELSE l[p[1]].methods[p[2]]]

\* ------------------------------------------------------------ construction
Init ==
    /\ timer \in [return_measure : BOOLEAN, save_measure : BOOLEAN,
                 n_iter : Iters \cup BadIters]
    /\ log = EmptyLog
    /\ decorated = [c \in {} |-> NoneValue]
    /\ out = << >>
    /\ ret = NoneValue
    /\ op = [name |-> "init"]
    /\ ncalls = 0
    /\ nruns = 0

\* ---------------------------------------------------------------- messages
\* "The '<name>' function was executed in T <unit>."
ExecutedMessage(c, t) == [template |-> "executed in", name |-> c, T |-> t]

\* "Iterations: N. The '<name>' function was executed in an average of T
\* <unit> per iteration."
AverageMessage(n, c, m) == [template |-> "average of", iterations |-> n, name |-> c, T |-> m]

\* ------------------------------------------------------------ return values
Plain(r) == [tuple |-> FALSE, result |-> r]
Pair(r, t) == [tuple |-> TRUE, result |-> r, T |-> t]
TimeList(times) == [type |-> "list", times |-> times]

FirstResult(c, x, n) == Apply(c, x, 1)

\* The result a wrapper hands back after n runs: that of the last run.
LastResult(c, x, n) == Apply(c, x, n)

\* ----------------------------------------------------- ExecutionTimer (4.2)
Overrides == {"None", "True", "False"}

TimerLevelReturnMeasure(ov) == timer.return_measure

\* The return_measure given to time_execution wins; without it the value the
\* ExecutionTimer was constructed with is used.
EffectiveReturnMeasure(ov) == IF ov = "None" THEN timer.return_measure ELSE ov = "True"

PrintedMean(times) == Mean(times)

\* The time the ExecutionTimer's wrapper prints: that of the last execution.
PrintedTime(times) == Ratio(Last(times), 1)

\* The time the ExecutionTimer's wrapper returns for n_iter > 1 is shown by no
\* example: the design document gives the mean, the printing path the last
\* execution.  Both are admitted.
ReturnedTimes(times) == {Mean(times), Ratio(Last(times), 1)}

RecordedAlways(l, c, x, times) == AppendRuns(l, c, x, times)

\* What the wrapper stores: every elapsed time, when save_measure is set.
Recorded(l, c, x, times) == IF timer.save_measure THEN AppendRuns(l, c, x, times) ELSE l

\* The definition of a callable under a decorator.
Define(c, d) ==
    /\ c \notin DOMAIN decorated
    /\ decorated' = [k \in DOMAIN decorated \cup {c} |-> IF k = c THEN d ELSE decorated[k]]
    /\ op' = [name |-> "decorate", fn |-> c]
    /\ out' = << >>
    /\ ret' = NoneValue
    /\ UNCHANGED <<timer, log, ncalls, nruns>>

\* @timer.time_execution, @timer.time_execution() and
\* @timer.time_execution(return_measure=...) applied to a callable.
Timer_time_execution(c, ov) == Define(c, [by |-> "ExecutionTimer", return_measure |-> ov])

IterationsClamped(n) == IF n < 1 THEN 1 ELSE n

\* The runs a logical call makes when n_iter is n: n of them, and none when n
\* is not positive, which is a configuration error and not a request for one
\* run.
Iterations(n) == IF n < 1 THEN 0 ELSE n

\* One logical call of a callable decorated by the ExecutionTimer: n_iter runs,
\* the elapsed time of each appended to the log, then the report.
Timer_wrapper(c, x, times) ==
    /\ c \in DOMAIN decorated
    /\ decorated[c].by = "ExecutionTimer"
    /\ Len(times) = Iterations(timer.n_iter)
    /\ Len(times) >= 1
    /\ ncalls < MaxCalls
    /\ nruns + Len(times) <= MaxRuns
    /\ ncalls' = ncalls + 1
    /\ nruns' = nruns + Len(times)
    /\ log' = Recorded(log, c, x, times)
    /\ LET rm == EffectiveReturnMeasure(decorated[c].return_measure)
           result == LastResult(c, x, Len(times))
       IN  IF rm
           THEN /\ out' = << >>
                /\ \E t \in ReturnedTimes(times) : ret' = Pair(result, t)
           ELSE /\ out' = << ExecutedMessage(c, PrintedTime(times)) >>
                /\ ret' = Plain(result)
    /\ op' = [name |-> "Timer.wrapper", fn |-> c, arg |-> x, times |-> times]
    /\ UNCHANGED <<timer, decorated>>

get_measured_time ==
    /\ ret' = [type |-> "dict", value |-> log]
    /\ op' = [name |-> "get_measured_time"]
    /\ out' = << >>
    /\ UNCHANGED <<timer, log, decorated, ncalls, nruns>>

ClearedListsOnly(l) == [k \in {k \in DOMAIN l : l[k].kind = "dict"} |-> l[k]]

\* The log with every key removed.
Cleared(l) == [k \in {} |-> NoneValue]

reset_measured_time ==
    /\ log' = Cleared(log)
    /\ ret' = NoneValue
    /\ op' = [name |-> "reset_measured_time"]
    /\ out' = << >>
    /\ UNCHANGED <<timer, decorated, ncalls, nruns>>

AverageOrZero(times) == IF Len(times) = 0 THEN Ratio(0, 1) ELSE Mean(times)

\* sum(times) / len(times) if times else None
Average(times) == IF Len(times) = 0 THEN NoneValue ELSE Mean(times)

\* The log with each list of times replaced by its average.
Averages(l) ==
    [k \in DOMAIN l |->
        IF l[k].kind = "dict"
        THEN [type |-> "dict", value |-> [m \in DOMAIN l[k].methods |-> Average(l[k].methods[m])]]
        ELSE Average(l[k].times)]

average_measured_time ==
    /\ ret' = [type |-> "dict", value |-> Averages(log)]
    /\ op' = [name |-> "average_measured_time"]
    /\ out' = << >>
    /\ UNCHANGED <<timer, log, decorated, ncalls, nruns>>

\* ------------------------------------------- time_execution, stateless (4.1)
Configs == [by : {"time_execution"}, return_measure : BOOLEAN, n_iter : Iters \cup BadIters,
            return_average : BOOLEAN]

FreeMessagesLastOnly(c, cfg, times) ==
    IF cfg.return_measure THEN << >>
    ELSE IF cfg.n_iter > 1 /\ cfg.return_average
         THEN << AverageMessage(cfg.n_iter, c, Mean(times)) >>
         ELSE << ExecutedMessage(c, Ratio(Last(times), 1)) >>

\* What the stateless wrapper prints for the elapsed times of its runs.
FreeMessages(c, cfg, times) ==
    IF cfg.return_measure THEN << >>
    ELSE IF cfg.n_iter > 1 /\ cfg.return_average
         THEN << AverageMessage(cfg.n_iter, c, Mean(times)) >>
         ELSE [i \in 1..Len(times) |-> ExecutedMessage(c, Ratio(times[i], 1))]

FreeMeasureAlwaysList(cfg, times) ==
    IF cfg.n_iter = 1 THEN Ratio(times[1], 1) ELSE TimeList(times)

\* The timing value the stateless wrapper returns with return_measure set.
FreeMeasure(cfg, times) ==
    IF cfg.n_iter = 1 THEN Ratio(times[1], 1)
    ELSE IF cfg.return_average THEN Mean(times)
         ELSE TimeList(times)

\* @time_execution and @time_execution(...) applied to a callable.
time_execution(c, cfg) == Define(c, cfg)

\* One logical call of a callable decorated by the stateless time_execution.
wrapper(c, x, times) ==
    /\ c \in DOMAIN decorated
    /\ decorated[c].by = "time_execution"
    /\ Len(times) = Iterations(decorated[c].n_iter)
    /\ ncalls < MaxCalls
    /\ nruns + Len(times) <= MaxRuns
    /\ ncalls' = ncalls + 1
    /\ nruns' = nruns + Len(times)
    /\ LET cfg == decorated[c]
           result == LastResult(c, x, Len(times))
       IN  /\ out' = FreeMessages(c, cfg, times)
           /\ ret' = IF cfg.return_measure
                     THEN Pair(result, FreeMeasure(cfg, times))
                     ELSE Plain(result)
    /\ op' = [name |-> "wrapper", fn |-> c, arg |-> x, times |-> times]
    /\ UNCHANGED <<timer, log, decorated>>

\* ------------------------------------------------ a wrapped callable fails
\* What a call hands to its caller when it ends with an exception.
Raised(e) == [raised |-> TRUE, exception |-> e]

\* The exception the wrapped callable raises in a run; like its result it is
\* an input of the decorator.
Failure(c, x, run) == [type |-> "Exception", fn |-> c, arg |-> x, run |-> run]

RunsContinued(k, n) == n

\* The runs made of the n configured when run k raises: the loop ends there.
RunsExecuted(k, n) == k

\* The times of the runs completed before the failing one are kept or
\* dropped; the design document leaves that open.  The failing run has none.
KeptOnFailure(times) == {times, << >>}

\* The per-run messages of the completed runs shown: they are written as the
\* runs end, or after the last run, which a failure never reaches.
PrintedOnFailure(c, cfg, shown) ==
    IF cfg.return_measure \/ (cfg.n_iter > 1 /\ cfg.return_average)
    THEN << >>
    ELSE [i \in 1..Len(shown) |-> ExecutedMessage(c, Ratio(shown[i], 1))]

\* A logical call of a callable decorated by the ExecutionTimer whose run
\* Len(times) + 1 raises, after the runs that took times.  op records the
\* times the call kept.
Timer_wrapper_raises(c, x, times) ==
    /\ c \in DOMAIN decorated
    /\ decorated[c].by = "ExecutionTimer"
    /\ Len(times) < timer.n_iter
    /\ ncalls < MaxCalls
    /\ nruns + timer.n_iter <= MaxRuns
    /\ ncalls' = ncalls + 1
    /\ nruns' = nruns + RunsExecuted(Len(times) + 1, timer.n_iter)
    /\ \E kept \in KeptOnFailure(times) :
           /\ log' = Recorded(log, c, x, kept)
           /\ op' = [name |-> "Timer.wrapper raised", fn |-> c, arg |-> x,
                     times |-> kept, run |-> Len(times) + 1]
    /\ out' = << >>
    /\ ret' = Raised(Failure(c, x, Len(times) + 1))
    /\ UNCHANGED <<timer, decorated>>

\* The same for a callable decorated by the stateless time_execution; op
\* records the times whose messages the call printed.
wrapper_raises(c, x, times) ==
    /\ c \in DOMAIN decorated
    /\ decorated[c].by = "time_execution"
    /\ Len(times) < decorated[c].n_iter
    /\ ncalls < MaxCalls
    /\ nruns + decorated[c].n_iter <= MaxRuns
    /\ ncalls' = ncalls + 1
    /\ nruns' = nruns + RunsExecuted(Len(times) + 1, decorated[c].n_iter)
    /\ \E shown \in KeptOnFailure(times) :
           /\ out' = PrintedOnFailure(c, decorated[c], shown)
           /\ op' = [name |-> "wrapper raised", fn |-> c, arg |-> x,
                     times |-> IF out' = << >> THEN << >> ELSE shown,
                     run |-> Len(times) + 1]
    /\ ret' = Raised(Failure(c, x, Len(times) + 1))
    /\ UNCHANGED <<timer, log, decorated>>

\* ------------------------------------------------- a non-positive n_iter
\* The error that reports an n_iter that is not positive.
ConfigurationError(n) == [type |-> "ConfigurationError", n_iter |-> n]

\* The end of an operation that reports the configuration error: nothing is
\* decorated, run, recorded or printed.
Reject(name, c, n) ==
    /\ Iterations(n) = 0
    /\ op' = [name |-> name, fn |-> c, n_iter |-> n]
    /\ out' = << >>
    /\ ret' = Raised(ConfigurationError(n))
    /\ UNCHANGED <<timer, log, decorated, ncalls, nruns>>

\* The error is reported when the callable is decorated ...
Timer_time_execution_rejects(c) ==
    /\ c \notin DOMAIN decorated
    /\ Reject("Timer.time_execution rejected", c, timer.n_iter)

time_execution_rejects(c, cfg) ==
    /\ c \notin DOMAIN decorated
    /\ Reject("time_execution rejected", c, cfg.n_iter)

\* ... or, the decoration having passed, when the callable is first called.
Timer_wrapper_rejects(c) ==
    /\ c \in DOMAIN decorated
    /\ decorated[c].by = "ExecutionTimer"
    /\ Reject("Timer.wrapper rejected", c, timer.n_iter)

wrapper_rejects(c) ==
    /\ c \in DOMAIN decorated
    /\ decorated[c].by = "time_execution"
    /\ Reject("wrapper rejected", c, decorated[c].n_iter)

\* ----------------------------------------------------------- specification
\* The elapsed times n runs can take.
Elapsed(n) == [1..n -> Ticks]

UsesTimer == \E c \in DOMAIN decorated : decorated[c].by = "ExecutionTimer"
UsesFree == \E c \in DOMAIN decorated : decorated[c].by = "time_execution"

\* The stateless decorator keeps no state and reads none of the
\* ExecutionTimer's, so a behaviour follows one script: its callables are
\* decorated by the ExecutionTimer, or by the stateless decorator.
\* An exception that reaches the caller ends the behaviour: the callers of the
\* examples catch none.
Running ==
    op.name \notin {"Timer.wrapper raised", "wrapper raised",
                    "Timer.time_execution rejected", "time_execution rejected",
                    "Timer.wrapper rejected", "wrapper rejected"}

Next ==
    \/ \E c \in Callables, ov \in Overrides :
           Running /\ ~UsesFree /\ Timer_time_execution(c, ov)
    \/ \E c \in Callables : \E x \in CallShapes(c) :
           \E times \in Elapsed(Iterations(timer.n_iter)) :
               Running /\ Timer_wrapper(c, x, times)
    \/ Running /\ get_measured_time
    \/ Running /\ reset_measured_time
    \/ Running /\ average_measured_time
    \/ \E c \in Functions, cfg \in Configs :
           Running /\ ~UsesTimer /\ time_execution(c, cfg)
    \/ \E c \in Functions : \E x \in CallShapes(c) :
           \E n \in Iters : \E times \in Elapsed(n) : Running /\ wrapper(c, x, times)
    \/ \E c \in Callables : \E x \in CallShapes(c) :
           \E k \in Iters : \E times \in Elapsed(k - 1) :
               Running /\ Timer_wrapper_raises(c, x, times)
    \/ \E c \in Functions : \E x \in CallShapes(c) :
           \E k \in Iters : \E times \in Elapsed(k - 1) :
               Running /\ wrapper_raises(c, x, times)
    \/ \E c \in Callables : Running /\ ~UsesFree /\ Timer_time_execution_rejects(c)
    \/ \E c \in Callables : Running /\ Timer_wrapper_rejects(c)
    \/ \E c \in Functions, cfg \in Configs :
           Running /\ ~UsesTimer /\ time_execution_rejects(c, cfg)
    \/ \E c \in Functions : Running /\ wrapper_rejects(c)

Spec == Init /\ [][Next]_vars

\* ------------------------------------------------- the average on any log
\* The lists of times the average can be handed, the empty list among them
\* ("If no times are recorded, the value will be None").
TimeLists == UNION {[1..k -> Ticks] : k \in 0..MaxLeaf}

FlatLogs == {EmptyLog} \cup {[k \in {f} |-> ListEntry(s)] : f \in Functions, s \in TimeLists}

NestedLogs ==
    {EmptyLog} \cup
    UNION {{[k \in {SampleClass} |-> DictEntry(ms)] : ms \in [M -> TimeLists]} :
               M \in (SUBSET Methods) \ {{}}}

InitAverage ==
    /\ timer = [return_measure |-> FALSE, save_measure |-> TRUE, n_iter |-> 1]
    /\ \E f \in FlatLogs, n \in NestedLogs : log = f @@ n
    /\ decorated = [c \in {} |-> NoneValue]
    /\ out = << >>
    /\ ret = NoneValue
    /\ op = [name |-> "init"]
    /\ ncalls = 0
    /\ nruns = 0

AverageNext == average_measured_time \/ get_measured_time

AverageSpec == InitAverage /\ [][AverageNext]_vars

\* ------------------------------------------------------------------- claims
TimerCalled == op.name = "Timer.wrapper"
FreeCalled == op.name = "wrapper"

\* The return_measure in force for a callable decorated by the ExecutionTimer.
GivenOrTimerLevel(c) ==
    LET given == decorated[c].return_measure
    IN  IF given = "True" THEN TRUE
        ELSE IF given = "False" THEN FALSE ELSE timer.return_measure

\* Where the times of a callable are kept in a log, and what is kept there.
Path(c) == IF c \in Methods THEN <<SampleClass, c>> ELSE <<c>>
LeafAt(l, p) == IF p \in DOMAIN Leaves(l) THEN Leaves(l)[p] ELSE << >>
Tail_n(s, n) == SubSeq(s, Len(s) - n + 1, Len(s))

IsPrefix(s, t) == Len(s) <= Len(t) /\ SubSeq(t, 1, Len(s)) = s

\* v is the float sum(s) / len(s).
IsMeanOf(v, s) == v.type = "float" /\ v.den > 0 /\ v.num * Len(s) = Sum(s) * v.den
IsTime(v, t) == v.type = "float" /\ v.den > 0 /\ v.num = t * v.den

\* C1: with save_measure set, a logical call appends the n_iter elapsed times
\* of its runs, in run order, to the end of the list of its key; no step but a
\* reset removes or changes a time already in the log.
C1_AppendsEveryRun ==
    [][/\ (op'.name = "Timer.wrapper" /\ ncalls' = ncalls + 1 /\ timer.save_measure)
            => /\ Len(op'.times) = timer.n_iter
               /\ LeafAt(log', Path(op'.fn)) = LeafAt(log, Path(op'.fn)) \o op'.times
       /\ (op'.name # "reset_measured_time")
            => \A p \in DOMAIN Leaves(log) :
                   /\ p \in DOMAIN Leaves(log')
                   /\ IsPrefix(Leaves(log)[p], Leaves(log')[p])]_vars

\* A second call with n_iter > 1 has appended its times after those of the first.
C1_Witness ==
    /\ TimerCalled /\ timer.save_measure /\ timer.n_iter > 1
    /\ Len(LeafAt(log, Path(op.fn))) = 2 * timer.n_iter
    /\ Tail_n(LeafAt(log, Path(op.fn)), timer.n_iter) = op.times
    /\ op.times[1] # op.times[timer.n_iter]

\* C2: without return_measure the wrapper returns the result of the last run
\* of the callable, and no tuple, under either decorator.
C2_ReturnsLastResult ==
    /\ (TimerCalled /\ ~GivenOrTimerLevel(op.fn))
           => ret = [tuple |-> FALSE, result |-> Apply(op.fn, op.arg, timer.n_iter)]
    /\ (FreeCalled /\ ~decorated[op.fn].return_measure)
           => ret = [tuple |-> FALSE, result |-> Apply(op.fn, op.arg, decorated[op.fn].n_iter)]

C2_Witness ==
    /\ TimerCalled /\ ~GivenOrTimerLevel(op.fn) /\ timer.n_iter > 1
    /\ ~ret.tuple /\ ret.result.run = timer.n_iter

\* C3 as stated: with return_measure the stateless wrapper returns (R_last, T)
\* with T one time: the elapsed time for n_iter = 1, the mean with
\* return_average, the time of the last run without it; never a list.
C3_AlwaysOneTime ==
    (FreeCalled /\ decorated[op.fn].return_measure)
        => LET cfg == decorated[op.fn]
           IN  /\ ret.tuple
               /\ ret.result = Apply(op.fn, op.arg, cfg.n_iter)
               /\ IF cfg.n_iter = 1 THEN IsTime(ret.T, op.times[1])
                  ELSE IF cfg.return_average THEN IsMeanOf(ret.T, op.times)
                       ELSE IsTime(ret.T, op.times[cfg.n_iter])

\* C3, amended: with return_measure the stateless wrapper returns (R_last, T)
\* where T is the elapsed time for n_iter = 1, the mean of the n_iter times
\* for n_iter > 1 with return_average, and the list of the n_iter times, in
\* run order, for n_iter > 1 without return_average.
C3_TimeMeanOrList ==
    (FreeCalled /\ decorated[op.fn].return_measure)
        => LET cfg == decorated[op.fn]
           IN  /\ ret.tuple
               /\ ret.result = Apply(op.fn, op.arg, cfg.n_iter)
               /\ IF cfg.n_iter = 1 THEN IsTime(ret.T, op.times[1])
                  ELSE IF cfg.return_average THEN IsMeanOf(ret.T, op.times)
                       ELSE ret.T = [type |-> "list", times |-> op.times]

C3_Witness ==
    /\ FreeCalled /\ decorated[op.fn].return_measure
    /\ decorated[op.fn].n_iter > 1 /\ ~decorated[op.fn].return_average
    /\ ret.T.type = "list" /\ Len(ret.T.times) = decorated[op.fn].n_iter

C5_NothingSaved ==
    ~timer.save_measure
        => /\ log = EmptyLog
           /\ op.name = "get_measured_time" => ret.value = EmptyLog

C5_Witness ==
    /\ ~timer.save_measure /\ TimerCalled /\ timer.n_iter > 1
    /\ op.fn \in Methods /\ ncalls = 2 /\ log = EmptyLog

\* C6: the times of a method are kept under the class name and, below it,
\* the method name, all methods of the class under the one class key; no
\* method name is a top-level key; a function is kept under its own name.
C6_TwoLevelKeys ==
    /\ DOMAIN log \subseteq Functions \cup {SampleClass}
    /\ \A k \in DOMAIN log :
           IF k = SampleClass
           THEN /\ log[k].kind = "dict"
                /\ DOMAIN log[k].methods \subseteq Methods
           ELSE log[k].kind = "list"
    /\ (TimerCalled /\ timer.save_measure)
           => IF op.fn \in Methods
              THEN /\ SampleClass \in DOMAIN log
                   /\ op.fn \in DOMAIN log[SampleClass].methods
                   /\ Tail_n(log[SampleClass].methods[op.fn], timer.n_iter) = op.times
              ELSE /\ op.fn \in DOMAIN log
                   /\ Tail_n(log[op.fn].times, timer.n_iter) = op.times

C6_Witness ==
    /\ DOMAIN log = {SampleClass}
    /\ DOMAIN log[SampleClass].methods = {"sample_method", "sample_method_x2"}

\* C7: average_measured_time() has the keys of the log, nested where the log
\* is nested, with every list of times replaced by its mean, and by None, not
\* by a number, where the list is empty.
C7_AveragesKeepShape ==
    op.name = "average_measured_time"
        => /\ DOMAIN ret.value = DOMAIN log
           /\ \A k \in DOMAIN log :
                  IF log[k].kind = "dict"
                  THEN /\ ret.value[k].type = "dict"
                       /\ DOMAIN ret.value[k].value = DOMAIN log[k].methods
                       /\ \A m \in DOMAIN log[k].methods :
                              IF log[k].methods[m] = << >>
                              THEN ret.value[k].value[m] = [type |-> "None"]
                              ELSE IsMeanOf(ret.value[k].value[m], log[k].methods[m])
                  ELSE IF log[k].times = << >>
                       THEN ret.value[k] = [type |-> "None"]
                       ELSE IsMeanOf(ret.value[k], log[k].times)

C7_Witness ==
    /\ op.name = "average_measured_time"
    /\ "sample_function" \in DOMAIN log /\ SampleClass \in DOMAIN log
    /\ DOMAIN log[SampleClass].methods = Methods
    /\ log[SampleClass].methods["sample_method"] = << >>
    /\ ret.value[SampleClass].value["sample_method"] = NoneValue
    /\ Len(log["sample_function"].times) = 2
    /\ ret.value["sample_function"].den = 2

\* C8: a reset leaves the empty mapping, which get_measured_time() then
\* returns; a second reset changes nothing; a call after a reset leaves in the
\* log the times of that call alone.
C8_ResetEmpties ==
    [][/\ op'.name = "reset_measured_time" => log' = EmptyLog
       /\ (op.name = "reset_measured_time" /\ op'.name = "get_measured_time")
              => ret'.value = EmptyLog
       /\ (op.name = "reset_measured_time" /\ op'.name = "reset_measured_time")
              => UNCHANGED vars
       /\ (op.name = "reset_measured_time" /\ op'.name = "Timer.wrapper"
              /\ timer.save_measure)
              => /\ DOMAIN Leaves(log') = {Path(op'.fn)}
                 /\ Leaves(log')[Path(op'.fn)] = op'.times]_vars

\* A call, a reset and a call: the log holds the second call's times only.
C8_Witness ==
    /\ TimerCalled /\ timer.save_measure /\ ncalls = 2
    /\ DOMAIN Leaves(log) = {Path(op.fn)}
    /\ Leaves(log)[Path(op.fn)] = op.times

C10_OverridePerCallable ==
    TimerCalled
        => LET given == decorated[op.fn].return_measure
           IN  /\ given = "True" => ret.tuple /\ out = << >>
               /\ given = "False" => ~ret.tuple /\ Len(out) = 1
               /\ given = "None" => /\ ret.tuple = timer.return_measure
                                    /\ Len(out) = IF timer.return_measure THEN 0 ELSE 1
               /\ timer.save_measure
                      => Tail_n(LeafAt(log, Path(op.fn)), timer.n_iter) = op.times

\* Example 6: a callable decorated without the option is called after one
\* that was given the opposite of the ExecutionTimer's value; both are in the
\* log.
C10_Witness ==
    /\ TimerCalled /\ decorated[op.fn].return_measure = "None"
    /\ ret.tuple = timer.return_measure
    /\ \E d \in DOMAIN decorated \ {op.fn} :
           /\ decorated[d].return_measure # "None"
           /\ (decorated[d].return_measure = "True") # timer.return_measure
           /\ LeafAt(log, Path(d)) # << >>
    /\ LeafAt(log, Path(op.fn)) # << >>

\* C11: when a run of the wrapped callable raises, the call ends with that
\* exception as raised, no run follows it, no time is appended and no message
\* is printed for it: only times and messages of the runs completed before it
\* can have been added.
C11_FailurePropagates ==
    [][(op'.name \in {"Timer.wrapper raised", "wrapper raised"} /\ ncalls' = ncalls + 1)
          => LET k == op'.run
                 p == Path(op'.fn)
                 added == Len(LeafAt(log', p)) - Len(LeafAt(log, p))
             IN  /\ ret' = [raised |-> TRUE,
                            exception |-> [type |-> "Exception", fn |-> op'.fn,
                                           arg |-> op'.arg, run |-> k]]
                 /\ nruns' = nruns + k
                 /\ Len(op'.times) <= k - 1
                 /\ IsPrefix(LeafAt(log, p), LeafAt(log', p))
                 /\ added <= k - 1
                 /\ Tail_n(LeafAt(log', p), added) = SubSeq(op'.times, 1, added)
                 /\ \A q \in DOMAIN Leaves(log') \ {p} :
                        q \in DOMAIN Leaves(log) /\ Leaves(log')[q] = Leaves(log)[q]
                 /\ Len(out') <= Len(op'.times)
                 /\ \A i \in 1..Len(out') : IsTime(out'[i].T, op'.times[i])]_vars

\* The second of the configured runs raised after a first call had recorded.
C11_Witness ==
    /\ op.name = "Timer.wrapper raised" /\ timer.save_measure
    /\ op.run = 2 /\ timer.n_iter >= 2 /\ ncalls = 2
    /\ ret.raised /\ out = << >>
    /\ LeafAt(log, Path(op.fn)) # << >>

\* C12: an n_iter that is not positive is reported as a configuration error
\* when the callable is decorated or when it is first called: it is not taken
\* for 1, no call under it completes or runs the callable, nothing is appended
\* to the log, and the operation that reports it returns no result and prints
\* nothing.
C12_NonPositiveRejected ==
    /\ op.name \in {"Timer.wrapper", "Timer.wrapper raised"} => timer.n_iter >= 1
    /\ op.name \in {"wrapper", "wrapper raised"} => decorated[op.fn].n_iter >= 1
    /\ timer.n_iter < 1 => log = EmptyLog
    /\ nruns > 0 => \/ UsesTimer /\ timer.n_iter >= 1
                    \/ \E c \in DOMAIN decorated :
                           decorated[c].by = "time_execution" /\ decorated[c].n_iter >= 1
    /\ op.name \in {"Timer.time_execution rejected", "time_execution rejected",
                    "Timer.wrapper rejected", "wrapper rejected"}
           => /\ op.n_iter < 1
              /\ ret = [raised |-> TRUE,
                        exception |-> [type |-> "ConfigurationError", n_iter |-> op.n_iter]]
              /\ out = << >>

\* The first call of a callable decorated under n_iter = 0 reported the error
\* with save_measure set.
C12_Witness ==
    /\ op.name = "Timer.wrapper rejected" /\ op.n_iter = 0
    /\ timer.n_iter = 0 /\ timer.save_measure
    /\ ret.raised /\ log = EmptyLog /\ nruns = 0

====
